---- MODULE Spec2Model ----
(***************************************************************************)
(* PUB socket fan-out engine of zmq.rs (src/pub.rs): the subscriber       *)
(* registry (a DashMap keyed by peer identity), the subscribe/unsubscribe *)
(* control protocol, the per-peer receive task and PubSocket::send.       *)
(*                                                                         *)
(* Every connection accepted by the transport gets a connection number;   *)
(* the send_queue and the oneshot stop sender stored in a Subscriber are  *)
(* identified by that number, so the stop_receiver of connection c is     *)
(* resolved exactly when no registry entry holds the sender of c.         *)
(* Steps are the DashMap operations: the receive tasks and send run on a  *)
(* multi-threaded executor and interleave between them.                   *)
(***************************************************************************)
EXTENDS Integers, Sequences, FiniteSets, TLC

\* ---------------------------------------------------------------- bounds
MaxConns == 2        \* connections the transport accepts in one run
MaxFrames == 3       \* inbound frames read by all receive tasks together
MaxSends == 1        \* send calls in one run
MaxList == 2         \* entries of the subscription list a pair starts from

\* ---------------------------------------------------------------- inputs
PeerIds == {"p1", "p2"}
ConnIds == 1..MaxConns

\* topics carried by control frames, as byte strings
Topics == {<< >>, <<2>>}

\* payloads handed to send
Payloads == {<< >>, <<3>>, <<2, 3>>}

\* decoded inbound frames: Message::Message with its bytes, or another kind
MessageFrame(data) == [kind |-> "Message", data |-> data]
Frames ==
    {MessageFrame(<<tag>> \o t) : tag \in {0, 1}, t \in Topics}
        \cup {MessageFrame(<< >>), MessageFrame(<<2>>), MessageFrame(<<2, 1>>)}
        \cup {[kind |-> "Command", data |-> << >>]}

\* results of send_queue.try_send
Outcomes == {"Ok", "BrokenPipe", "OtherIo", "NonIo"}

\* capacity of the monitor channel
MonitorCapacity == 1024

VARIABLES
    subscribers,     \* PubSocketBackend.subscribers: peer id -> Subscriber
    socket_monitor,  \* PubSocketBackend.socket_monitor and the channel behind it
    tasks,           \* the receive task spawned for each connection
    nextConn,        \* number of the next connection the transport accepts
    framesRead,      \* inbound frames read so far
    sendPc,          \* position of the send call
    message,         \* payload of the send call in progress
    scanDone,        \* peer ids whose entry the registry iterator has yielded
    scanSkipped,     \* peer ids inserted behind the iterator during the scan
    dead_peers,      \* send's dead_peers vector
    tried,           \* connection -> try_send calls of this send and their result
    sendResult,      \* what the last send call returned
    sends,           \* send calls started so far
    dropped,         \* the PubSocket has been dropped
    expected,        \* per connection: list simulated from its own control frames
    removals,        \* per connection: entries its task removed from its list
    foreign          \* connections whose entry another connection's task mutated

vars == <<subscribers, socket_monitor, tasks, nextConn, framesRead, sendPc,
          message, scanDone, scanSkipped, dead_peers, tried, sendResult,
          sends, dropped, expected, removals, foreign>>

sendVars == <<sendPc, message, scanDone, scanSkipped, dead_peers, tried,
              sendResult, sends>>

\* ------------------------------------------------------------- registry
\* DashMap::insert: the value of an existing key is replaced (and dropped)
MapInsert(map, k, v) == [x \in DOMAIN map \cup {k} |-> IF x = k THEN v ELSE map[x]]

\* DashMap::clear in the place of a removal: every entry goes
MapClear(map, k) == [x \in {} |-> map[x]]

\* DashMap::remove: absent keys are left alone
MapRemove(map, k) == [x \in DOMAIN map \ {k} |-> map[x]]

EmptyMap == [x \in {} |-> 0]

Subscriber(c) == [subscriptions |-> << >>, conn |-> c]

\* the oneshot sender of connection c is alive while an entry holds it
SenderAlive(map, c) == \E id \in DOMAIN map : map[id].conn = c

NoTask == [state |-> "Unspawned", peer_id |-> "none", pc |-> "select",
           sub |-> << >>, del_index |-> 0]

\* stop_receiver of a spawned task resolves once its sender is dropped
StopFired(c) == tasks[c].state # "Unspawned" /\ ~SenderAlive(subscribers, c)

Init ==
    /\ subscribers = EmptyMap
    /\ socket_monitor = [attached |-> FALSE, events |-> << >>]
    /\ tasks = [c \in ConnIds |-> NoTask]
    /\ nextConn = 1
    /\ framesRead = 0
    /\ sendPc = "idle"
    /\ message = << >>
    /\ scanDone = {}
    /\ scanSkipped = {}
    /\ dead_peers = << >>
    /\ tried = EmptyMap
    /\ sendResult = "none"
    /\ sends = 0
    /\ dropped = FALSE
    /\ expected = [c \in ConnIds |-> << >>]
    /\ removals = [c \in ConnIds |-> 0]
    /\ foreign = {}

\* ------------------------------------------- subscription protocol handler
\* the for loop of the unsubscribe arm: index of the first entry equal to
\* sub (1-based), 0 for del_index = None
RECURSIVE SearchFrom(_, _, _)
SearchFrom(subscriptions, sub, idx) ==
    IF idx > Len(subscriptions) THEN 0
    ELSE IF sub = subscriptions[idx] THEN idx
    ELSE SearchFrom(subscriptions, sub, idx + 1)

\* Vec::push
VecPush(v, x) == Append(v, x)

\* a removal by value: retain(|s| s != v[index]) drops every equal entry
VecRetainOthers(v, index) == SelectSeq(v, LAMBDA x : x # v[index])

\* Vec::remove(index), for an index inside the vector
VecRemove(v, index) == SubSeq(v, 1, index - 1) \o SubSeq(v, index + 1, Len(v))

\* the protocol's effect of one control frame on a list: a subscribe
\* appends the topic, an unsubscribe removes its first occurrence
RefApply(list, tag, topic) ==
    IF tag = 1 THEN list \o <<topic>>
    ELSE IF \A i \in 1..Len(list) : list[i] # topic THEN list
    ELSE LET first == CHOOSE i \in 1..Len(list) :
                          /\ list[i] = topic
                          /\ \A j \in 1..(i - 1) : list[j] # topic
         IN  [j \in 1..(Len(list) - 1) |-> IF j < first THEN list[j] ELSE list[j + 1]]

\* history: the task of connection c has applied (tag, topic) to the entry
\* of connection owner. Its own simulated list moves on when the entry is
\* its own (and a removal is counted); otherwise the owner's entry is
\* recorded as mutated from outside
Applied(c, owner, tag, topic, removed) ==
    /\ expected' = IF owner = c
                   THEN [expected EXCEPT ![c] = RefApply(@, tag, topic)]
                   ELSE expected
    /\ removals' = IF owner = c /\ removed
                   THEN [removals EXCEPT ![c] = @ + 1]
                   ELSE removals
    /\ foreign' = IF owner = c THEN foreign ELSE foreign \cup {owner}

Panic(c) == tasks' = [tasks EXCEPT ![c].state = "Panicked"]

\* a handler without the tag match: every non-empty message subscribes
SubscribeOnAnyTag(c, peer_id, m) ==
    IF m.kind # "Message" \/ m.data = << >> \/ peer_id \notin DOMAIN subscribers
    THEN UNCHANGED <<subscribers, tasks, expected, removals, foreign>>
    ELSE /\ subscribers' = [subscribers EXCEPT ![peer_id].subscriptions =
                                VecPush(@, Tail(m.data))]
         /\ UNCHANGED <<tasks, expected, removals, foreign>>

\* message_received up to the end of the call, or up to the point where the
\* unsubscribe arm has computed del_index = Some(index)
message_received(c, peer_id, m) ==
    IF m.kind # "Message" \/ m.data = << >> \/ m.data[1] \notin {0, 1}
    THEN UNCHANGED <<subscribers, tasks, expected, removals, foreign>>
    ELSE IF peer_id \notin DOMAIN subscribers
    THEN \* get_mut(..).unwrap() / get(..).unwrap() on None
         /\ Panic(c)
         /\ UNCHANGED <<subscribers, expected, removals, foreign>>
    ELSE LET entry == subscribers[peer_id]
             topic == Tail(m.data)
         IN  IF m.data[1] = 1
             THEN /\ subscribers' = [subscribers EXCEPT ![peer_id].subscriptions =
                                         VecPush(@, topic)]
                  /\ Applied(c, entry.conn, 1, topic, FALSE)
                  /\ UNCHANGED tasks
             ELSE LET del_index == SearchFrom(entry.subscriptions, topic, 1)
                  IN  IF del_index = 0
                      THEN /\ Applied(c, entry.conn, 0, topic, FALSE)
                           /\ UNCHANGED <<subscribers, tasks>>
                      ELSE /\ tasks' = [tasks EXCEPT ![c].pc = "unsub",
                                                     ![c].sub = topic,
                                                     ![c].del_index = del_index]
                           /\ UNCHANGED <<subscribers, expected, removals,
                                          foreign>>

\* the rest of the unsubscribe arm: get_mut(..).unwrap().subscriptions.remove(index)
unsubscribe_remove(c, peer_id) ==
    IF peer_id \notin DOMAIN subscribers
    THEN /\ Panic(c)
         /\ UNCHANGED <<subscribers, expected, removals, foreign>>
    ELSE LET entry == subscribers[peer_id]
             index == tasks[c].del_index
         IN  IF index > Len(entry.subscriptions)
             THEN \* Vec::remove out of bounds
                  /\ Panic(c)
                  /\ UNCHANGED <<subscribers, expected, removals, foreign>>
             ELSE /\ subscribers' = [subscribers EXCEPT ![peer_id].subscriptions =
                                         VecRemove(@, index)]
                  /\ tasks' = [tasks EXCEPT ![c].pc = "select", ![c].sub = << >>,
                                            ![c].del_index = 0]
                  /\ Applied(c, entry.conn, 0, tasks[c].sub, TRUE)

\* ------------------------------------------------------------ lifecycle
\* peer_connected: insert the Subscriber and spawn the receive task. An
\* entry inserted while send iterates may or may not be yielded later.
peer_connected(peer_id) ==
    /\ ~dropped
    /\ nextConn <= MaxConns
    /\ subscribers' = MapInsert(subscribers, peer_id, Subscriber(nextConn))
    /\ tasks' = [tasks EXCEPT ![nextConn] =
                     [NoTask EXCEPT !.state = "Running", !.peer_id = peer_id]]
    /\ nextConn' = nextConn + 1
    /\ IF sendPc = "scan" /\ peer_id \notin DOMAIN subscribers \cup scanDone
       THEN \E behind \in BOOLEAN :
                scanSkipped' = IF behind THEN scanSkipped \cup {peer_id}
                               ELSE scanSkipped
       ELSE scanSkipped' = scanSkipped
    /\ UNCHANGED <<socket_monitor, framesRead, sendPc, message, scanDone,
                   dead_peers, tried, sendResult, sends, dropped, expected,
                   removals, foreign>>

\* a disconnect that only logs: the entry stays
DisconnectKeepsEntry(peer_id) ==
    /\ subscribers' = subscribers
    /\ socket_monitor' = socket_monitor

\* peer_disconnected: log and remove; nothing is sent to the monitor
peer_disconnected(peer_id) ==
    /\ subscribers' = MapRemove(subscribers, peer_id)
    /\ socket_monitor' = socket_monitor

\* select!: the stop_receiver branch
LoopStop(c) ==
    /\ tasks[c].state = "Running"
    /\ tasks[c].pc = "select"
    /\ StopFired(c)
    /\ tasks' = [tasks EXCEPT ![c].state = "Terminated"]
    /\ UNCHANGED <<subscribers, socket_monitor, nextConn, framesRead, sendVars,
                   dropped, expected, removals, foreign>>

\* select!: recv_queue.next() yields Some(Ok(m)); taken also when the stop
\* signal is ready at the same time (select! picks among the ready branches)
LoopRecv(c, m) ==
    /\ tasks[c].state = "Running"
    /\ tasks[c].pc = "select"
    /\ framesRead < MaxFrames
    /\ framesRead' = framesRead + 1
    /\ message_received(c, tasks[c].peer_id, m)
    /\ UNCHANGED <<socket_monitor, nextConn, sendVars, dropped>>

LoopUnsubRemove(c) ==
    /\ tasks[c].state = "Running"
    /\ tasks[c].pc = "unsub"
    /\ unsubscribe_remove(c, tasks[c].peer_id)
    /\ UNCHANGED <<socket_monitor, nextConn, framesRead, sendVars, dropped>>

\* select!: recv_queue.next() yields Some(Err(e))
LoopStreamErr(c) ==
    /\ tasks[c].state = "Running"
    /\ tasks[c].pc = "select"
    /\ peer_disconnected(tasks[c].peer_id)
    /\ tasks' = [tasks EXCEPT ![c].state = "Terminated"]
    /\ UNCHANGED <<nextConn, framesRead, sendVars, dropped, expected,
                   removals, foreign>>

\* select!: recv_queue.next() yields None
LoopStreamEnd(c) ==
    /\ tasks[c].state = "Running"
    /\ tasks[c].pc = "select"
    /\ tasks' = [tasks EXCEPT ![c].state = "Terminated"]
    /\ peer_disconnected(tasks[c].peer_id)
    /\ UNCHANGED <<nextConn, framesRead, sendVars, dropped, expected,
                   removals, foreign>>

\* Drop for PubSocket: shutdown clears the registry. The socket is borrowed
\* mutably by a send in progress, so it is dropped between sends or while
\* a panic of send unwinds.
shutdown ==
    /\ ~dropped
    /\ sendPc \in {"idle", "panicked"}
    /\ subscribers' = EmptyMap
    /\ dropped' = TRUE
    /\ UNCHANGED <<socket_monitor, tasks, nextConn, framesRead, sendVars,
                   expected, removals, foreign>>

\* PubSocket::monitor: a fresh channel replaces the stored sender
monitor ==
    /\ ~dropped
    /\ sendPc = "idle"
    /\ socket_monitor' = [attached |-> TRUE, events |-> << >>]
    /\ UNCHANGED <<subscribers, tasks, nextConn, framesRead, sendVars, dropped,
                   expected, removals, foreign>>

\* ----------------------------------------------------------------- send
\* a filter test that only checks that the slice can be taken
FilterFits(sub_filter, data) == Len(sub_filter) <= Len(data)

\* sub_filter.as_slice() == &message.data[0..sub_filter.len()], once the
\* range is known to lie inside the payload
FilterMatches(sub_filter, data) == sub_filter = SubSeq(data, 1, Len(sub_filter))

\* the slice message.data[0..sub_filter.len()] is out of range
SliceOutOfRange(sub_filter, data) == Len(sub_filter) > Len(data)

\* the inner for loop over one subscriber's subscriptions, from position i,
\* when try_send answers res: the number of try_send calls, whether the
\* peer was pushed on dead_peers, and whether the loop panicked
RECURSIVE ScanSubscriptions(_, _, _, _)
ScanSubscriptions(subscriptions, data, res, i) ==
    IF i > Len(subscriptions)
    THEN [tries |-> 0, dead |-> FALSE, panic |-> FALSE]
    ELSE IF SliceOutOfRange(subscriptions[i], data)
    THEN [tries |-> 0, dead |-> FALSE, panic |-> TRUE]
    ELSE IF FilterMatches(subscriptions[i], data)
    THEN \* try_send, the match on res, then break
         [tries |-> 1, dead |-> res = "BrokenPipe", panic |-> res = "NonIo"]
    ELSE ScanSubscriptions(subscriptions, data, res, i + 1)

\* entries the registry iterator still yields
ScanPending == DOMAIN subscribers \ (scanDone \cup scanSkipped)

SendStart(payload) ==
    /\ ~dropped
    /\ sendPc = "idle"
    /\ sends < MaxSends
    /\ sends' = sends + 1
    /\ sendPc' = "scan"
    /\ message' = payload
    /\ dead_peers' = << >>
    /\ scanDone' = {}
    /\ scanSkipped' = {}
    /\ tried' = EmptyMap
    /\ sendResult' = "none"
    /\ UNCHANGED <<subscribers, socket_monitor, tasks, nextConn, framesRead,
                   dropped, expected, removals, foreign>>

\* one turn of the outer for loop: the entry of peer_id, under its lock
SendVisit(peer_id, res) ==
    /\ sendPc = "scan"
    /\ peer_id \in ScanPending
    /\ LET subscriber == subscribers[peer_id]
           r == ScanSubscriptions(subscriber.subscriptions, message, res, 1)
       IN  /\ tried' = IF r.tries > 0
                       THEN MapInsert(tried, subscriber.conn,
                                      [tries |-> r.tries, res |-> res])
                       ELSE tried
           /\ dead_peers' = IF r.dead THEN Append(dead_peers, peer_id) ELSE dead_peers
           /\ sendPc' = IF r.panic THEN "panicked" ELSE "scan"
    /\ scanDone' = scanDone \cup {peer_id}
    /\ UNCHANGED <<subscribers, socket_monitor, tasks, nextConn, framesRead,
                   message, scanSkipped, sendResult, sends, dropped, expected,
                   removals, foreign>>

\* the outer for loop ends
SendScanEnd ==
    /\ sendPc = "scan"
    /\ ScanPending = {}
    /\ sendPc' = "remove"
    /\ UNCHANGED <<subscribers, socket_monitor, tasks, nextConn, framesRead,
                   message, scanDone, scanSkipped, dead_peers, tried,
                   sendResult, sends, dropped, expected, removals, foreign>>

\* for peer in dead_peers { peer_disconnected(&peer) }
SendRemoveDead ==
    /\ sendPc = "remove"
    /\ dead_peers # << >>
    /\ peer_disconnected(Head(dead_peers))
    /\ dead_peers' = Tail(dead_peers)
    /\ UNCHANGED <<tasks, nextConn, framesRead, sendPc, message, scanDone,
                   scanSkipped, tried, sendResult, sends, dropped, expected,
                   removals, foreign>>

\* Ok(()): the call returns and its message and iterator are gone
SendReturn ==
    /\ sendPc = "remove"
    /\ dead_peers = << >>
    /\ sendPc' = "idle"
    /\ sendResult' = "Ok"
    /\ message' = << >>
    /\ scanDone' = {}
    /\ scanSkipped' = {}
    /\ UNCHANGED <<subscribers, socket_monitor, tasks, nextConn, framesRead,
                   dead_peers, tried, sends, dropped, expected, removals,
                   foreign>>

\* ------------------------------------------------------- specifications
Next ==
    \/ \E peer_id \in PeerIds : peer_connected(peer_id)
    \/ \E c \in ConnIds : LoopStop(c)
    \/ \E c \in ConnIds, m \in Frames : LoopRecv(c, m)
    \/ \E c \in ConnIds : LoopUnsubRemove(c)
    \/ \E c \in ConnIds : LoopStreamErr(c)
    \/ \E c \in ConnIds : LoopStreamEnd(c)
    \/ \E payload \in Payloads : SendStart(payload)
    \/ \E peer_id \in PeerIds, res \in Outcomes : SendVisit(peer_id, res)
    \/ SendScanEnd
    \/ SendRemoveDead
    \/ SendReturn
    \/ monitor
    \/ shutdown

Spec == Init /\ [][Next]_vars

\* a spawned task is polled again whenever one of its futures is ready, and
\* select! gives a ready stop_receiver its turn
FairSpec ==
    /\ Spec
    /\ \A c \in ConnIds : WF_vars(LoopStop(c)) /\ WF_vars(LoopUnsubRemove(c))

\* ------------------------------------- subscribe/unsubscribe pairs on a list
\* Two connected peers that have each subscribed to the topics of the same
\* list L, in order. p1 then sends subscribe(t), possibly a second
\* subscribe(t), and unsubscribe(t); p2 sends nothing more and keeps L.
TopicLists == UNION {[1..n -> Topics] : n \in 0..MaxList}

PairPeer == "p1"
RefPeer == "p2"
PairConn == 1
RefConn == 2

PairInit ==
    \E L \in TopicLists :
        /\ subscribers = [id \in {PairPeer, RefPeer} |->
                             [subscriptions |-> L,
                              conn |-> IF id = PairPeer THEN PairConn ELSE RefConn]]
        /\ socket_monitor = [attached |-> FALSE, events |-> << >>]
        /\ tasks = [c \in ConnIds |->
                       [NoTask EXCEPT !.state = "Running",
                                      !.peer_id = IF c = PairConn THEN PairPeer
                                                  ELSE RefPeer]]
        /\ nextConn = MaxConns + 1
        /\ framesRead = 2 * Len(L)
        /\ sendPc = "idle"
        /\ message = << >>
        /\ scanDone = {}
        /\ scanSkipped = {}
        /\ dead_peers = << >>
        /\ tried = EmptyMap
        /\ sendResult = "none"
        /\ sends = 0
        /\ dropped = FALSE
        /\ expected = [c \in ConnIds |-> L]
        /\ removals = [c \in ConnIds |-> 0]
        /\ foreign = {}

PairList == subscribers[PairPeer].subscriptions
RefList == subscribers[RefPeer].subscriptions

\* the unsubscribe of the pair has removed its entry
PairDone == removals[PairConn] = 1

\* the control frames p1 may send next: a subscribe of any topic first,
\* then the same topic once more or its unsubscribe, then its unsubscribe
PairFrames ==
    IF PairDone THEN {}
    ELSE IF Len(PairList) = Len(RefList)
    THEN {MessageFrame(<<1>> \o t) : t \in Topics}
    ELSE LET t == PairList[Len(PairList)]
         IN  {MessageFrame(<<0>> \o t)}
                 \cup (IF Len(PairList) = Len(RefList) + 1
                       THEN {MessageFrame(<<1>> \o t)} ELSE {})

\* the receive task of p1 reads the next frame of the pair
PairRecv ==
    \E m \in PairFrames :
        /\ tasks[PairConn].state = "Running"
        /\ tasks[PairConn].pc = "select"
        /\ framesRead' = framesRead + 1
        /\ message_received(PairConn, PairPeer, m)
        /\ UNCHANGED <<socket_monitor, nextConn, sendVars, dropped>>

\* a send once the pair is complete; every try_send succeeds
PairSend == PairDone /\ \E payload \in Payloads : SendStart(payload)

PairVisit == \E peer_id \in PeerIds : SendVisit(peer_id, "Ok")

PairNext ==
    \/ PairRecv
    \/ LoopUnsubRemove(PairConn)
    \/ PairSend
    \/ PairVisit
    \/ SendScanEnd
    \/ SendReturn

PairSpec == PairInit /\ [][PairNext]_vars

\* ------------------------------------------------------------ properties
\* s is a byte-for-byte prefix of p
IsPrefix(s, p) == Len(s) <= Len(p) /\ \A i \in 1..Len(s) : s[i] = p[i]

HasPrefixOf(subscriptions, p) ==
    \E i \in 1..Len(subscriptions) : IsPrefix(subscriptions[i], p)

\* try_send calls made to connection c in the send call recorded in t
Tries(t, c) == IF c \in DOMAIN t THEN t[c].tries ELSE 0

\* C1: the subscription list of a registered peer equals the list obtained
\* from the empty list by applying, in order, the control frames its task
\* has processed: append for a subscribe, removal of the first equal entry
\* for an unsubscribe, nothing for an unsubscribe of an absent topic. (The
\* frames of one peer: an entry that the task of another connection with
\* the same identity has mutated is not covered.)
C1_ListIsSimulation ==
    \A id \in DOMAIN subscribers :
        LET c == subscribers[id].conn
        IN  c \notin foreign => subscribers[id].subscriptions = expected[c]

\* one peer, three control frames processed, one of them an unsubscribe
\* that removed an entry, and a topic left in the list
C1_Witness ==
    \E id \in DOMAIN subscribers :
        /\ subscribers[id].conn \notin foreign
        /\ nextConn = 2
        /\ framesRead = 3
        /\ tasks[1].pc = "select"
        /\ removals[1] = 1
        /\ subscribers[id].subscriptions = << <<2>> >>

\* C2: every try_send of a send call goes to a registered peer one of whose
\* subscriptions is a prefix of the payload; a peer none of whose
\* subscriptions is a prefix (all longer, all different, or none at all)
\* gets no delivery attempt.
C2_NoAttemptWithoutPrefix ==
    [][\A c \in ConnIds :
          Tries(tried', c) > Tries(tried, c) =>
              \E id \in DOMAIN subscribers :
                  /\ subscribers[id].conn = c
                  /\ HasPrefixOf(subscribers[id].subscriptions, message)]_vars

\* the scan has yielded a peer whose only subscription is no prefix of the
\* payload, and made no try_send to it
C2_Witness ==
    \E id \in DOMAIN subscribers \cap scanDone :
        /\ sendPc = "scan"
        /\ framesRead = 1
        /\ Len(subscribers[id].subscriptions) = 1
        /\ ~HasPrefixOf(subscribers[id].subscriptions, message)
        /\ subscribers[id].conn \notin DOMAIN tried

\* the outer loop of send yields the entry of id in this step
Yielded(id) == id \in scanDone' /\ id \notin scanDone

\* C3: send always completes and returns Ok, whatever the registry, the
\* payload and the result of each try_send: the call never aborts, and a
\* call that has returned has returned Ok.
C3_SendAlwaysReturnsOk ==
    /\ sendPc # "panicked"
    /\ (sendPc = "idle" /\ sends > 0) => sendResult = "Ok"

\* C4: a peer whose subscription list contains the zero-length topic gets a
\* try_send when the scan reaches it, whatever else is in its list and
\* whatever the payload.
C4_EmptyTopicGetsAttempt ==
    [][\A id \in DOMAIN subscribers :
          (/\ Yielded(id)
           /\ \E i \in 1..Len(subscribers[id].subscriptions) :
                  subscribers[id].subscriptions[i] = << >>)
              => Tries(tried', subscribers[id].conn) >= 1]_vars

\* C5: the scan makes at most one try_send to a peer, and exactly one when
\* at least one of the peer's subscriptions is a prefix of the payload.
C5_ExactlyOneAttempt ==
    [][\A id \in DOMAIN subscribers :
          Yielded(id) =>
              LET n == Tries(tried', subscribers[id].conn)
              IN  /\ n <= 1
                  /\ HasPrefixOf(subscribers[id].subscriptions, message) => n = 1]_vars

\* C6: a step of a receive task whose peer identity is not in the registry
\* (the entry was removed by send, by shutdown, or between the lookup and
\* the removal of an unsubscribe) raises no panic and leaves the registry
\* as it is.
C6_AbsentPeerIsNoOp ==
    [][\A c \in ConnIds :
          (/\ tasks[c].state = "Running"
           /\ tasks[c].peer_id \notin DOMAIN subscribers
           /\ (tasks'[c] # tasks[c] \/ framesRead' # framesRead))
              => /\ tasks'[c].state # "Panicked"
                 /\ subscribers' = subscribers]_vars

\* C7: in a send where try_send to some peer A answered BrokenPipe, every
\* peer B the scan yields afterwards that has a prefix of the payload gets
\* its try_send, the call does not abort, and when it has returned it has
\* returned Ok and no entry holds the connection of A.
C7_BrokenPipeIsLocal ==
    /\ [][\A id \in DOMAIN subscribers :
             (/\ Yielded(id)
              /\ \E a \in DOMAIN tried : tried[a].res = "BrokenPipe"
              /\ HasPrefixOf(subscribers[id].subscriptions, message))
                 => Tries(tried', subscribers[id].conn) >= 1]_vars
    /\ [](\A a \in DOMAIN tried :
             tried[a].res = "BrokenPipe" =>
                 /\ sendPc # "panicked"
                 /\ sendPc = "idle" => (sendResult = "Ok" /\ ~SenderAlive(subscribers, a)))

\* the entry of connection c has been removed by peer_disconnected: its
\* stop signal has fired while the socket lives and no other connection
\* has used its identity
RemovedByDisconnect(c) ==
    /\ StopFired(c)
    /\ ~dropped
    /\ \A d \in ConnIds \ {c} : tasks[d].peer_id # tasks[c].peer_id

\* C8: once the entry of a peer has been removed, no send makes a try_send
\* to that peer any more, and the receive task of the peer eventually
\* reaches Terminated.
C8_RemovedPeerIsQuiet ==
    /\ [][\A c \in ConnIds :
             StopFired(c) => Tries(tried', c) <= Tries(tried, c)]_vars
    /\ \A c \in ConnIds :
           RemovedByDisconnect(c) ~> tasks[c].state = "Terminated"

\* C9: after the socket has been dropped the registry is and stays empty,
\* and every receive task that was spawned eventually reaches Terminated.
C9_DropStopsEverything ==
    /\ [](dropped => subscribers = EmptyMap)
    /\ (dropped ~> \A c \in ConnIds : tasks[c].state \in {"Unspawned", "Terminated"})

\* C10: when peer_disconnected removes an entry (a peer found unreachable
\* by send, or a stream that ended or failed) and a monitor is attached
\* with free capacity, a Disconnected event for that peer is put on the
\* monitor channel.
C10_DisconnectEmitsEvent ==
    [][\A id \in DOMAIN subscribers :
          (/\ id \notin DOMAIN subscribers'
           /\ ~dropped'
           /\ socket_monitor.attached
           /\ Len(socket_monitor.events) < MonitorCapacity)
              => socket_monitor'.events =
                     Append(socket_monitor.events,
                            [event |-> "Disconnected", peer_id |-> id])]_vars

\* C11: a try_send that fails with anything but BrokenPipe, another I/O
\* error kind or an error that is no I/O error, neither puts the peer on
\* dead_peers nor stops the scan: send goes on to the remaining entries.
C11_OtherErrorsAreNotFatal ==
    [][\A id \in DOMAIN subscribers :
          (/\ Yielded(id)
           /\ subscribers[id].conn \in DOMAIN tried'
           /\ tried'[subscribers[id].conn].res \in {"OtherIo", "NonIo"})
              => /\ dead_peers' = dead_peers
                 /\ sendPc' = "scan"]_vars

\* occurrences of x in list
Count(list, x) == Cardinality({i \in 1..Len(list) : list[i] = x})

\* the scan of the send in progress, or of the last send, has passed both peers
PairScanned == {PairPeer, RefPeer} \subseteq scanDone \/ sendResult = "Ok"

\* C12: from any list L, subscribe(t) followed by unsubscribe(t) leaves a
\* list with the multiset of L, and a send reaches the peer exactly when it
\* reaches a peer that holds L; subscribe(t), subscribe(t), unsubscribe(t)
\* leaves one more t than L has, and a send of a payload that starts with t
\* reaches the peer.
C12_PairsBalance ==
    PairDone /\ tasks[PairConn].pc = "select" =>
        /\ Len(PairList) = Len(RefList) =>
              /\ \A x \in Topics : Count(PairList, x) = Count(RefList, x)
              /\ PairScanned =>
                    (Tries(tried, PairConn) > 0 <=> Tries(tried, RefConn) > 0)
        /\ Len(PairList) # Len(RefList) =>
              LET t == PairList[Len(PairList)]
              IN  /\ Count(PairList, t) = Count(RefList, t) + 1
                  /\ \A x \in Topics \ {t} : Count(PairList, x) = Count(RefList, x)
                  /\ (PairPeer \in scanDone /\ IsPrefix(t, message)) =>
                        Tries(tried, PairConn) > 0

\* C13: a receive task that waits in select! with its stop signal fired
\* takes the stop branch at its next step: whenever the task moves, it moves
\* to Terminated, and that step reads no inbound frame.
C13_StopWinsTheSelect ==
    [][\A c \in ConnIds :
          (/\ StopFired(c)
           /\ tasks[c].state = "Running"
           /\ tasks[c].pc = "select"
           /\ tasks'[c] # tasks[c])
              => /\ tasks'[c].state = "Terminated"
                 /\ framesRead' = framesRead]_vars

\* C14: the step a receive task takes when its inbound stream ends or
\* yields an error leaves the task's peer identity out of the registry and
\* the task Terminated; a Terminated task never changes again, and none of
\* its steps (reading a frame, finishing an unsubscribe, removing its
\* identity, taking the stop branch) can be taken any more.
C14_StreamEndRemovesThenTerminates ==
    /\ [][\A c \in ConnIds :
             /\ (LoopStreamErr(c) \/ LoopStreamEnd(c)) =>
                    /\ tasks[c].peer_id \notin DOMAIN subscribers'
                    /\ tasks'[c].state = "Terminated"
             /\ tasks[c].state = "Terminated" => tasks'[c] = tasks[c]]_vars
    /\ [](\A c \in ConnIds :
             tasks[c].state = "Terminated" =>
                 /\ \A m \in Frames : ~ENABLED LoopRecv(c, m)
                 /\ ~ENABLED LoopUnsubRemove(c)
                 /\ ~ENABLED LoopStreamErr(c)
                 /\ ~ENABLED LoopStreamEnd(c)
                 /\ ~ENABLED LoopStop(c))

\* one connection, no send, the socket alive: the task has processed a
\* subscribe, its stream has ended, its entry is gone and it is Terminated
C14_Witness ==
    /\ nextConn = 2
    /\ sends = 0
    /\ ~dropped
    /\ framesRead >= 1
    /\ expected[1] # << >>
    /\ tasks[1].state = "Terminated"
    /\ tasks[1].peer_id \notin DOMAIN subscribers

\* a step of the scan of send: an entry is yielded or the scan ends
ScanStep == sendPc = "scan" /\ (scanDone' # scanDone \/ sendPc' # "scan")

\* a step of the dead_peers loop of send
DeadLoopStep == dead_peers # << >> /\ dead_peers' = Tail(dead_peers)

NoiseFrames ==
    {m \in Frames : m.kind # "Message" \/ m.data = << >> \/ m.data[1] \notin {0, 1}}

\* C16: the step in which a receive task reads a frame the protocol
\* ignores leaves the registry, its keys and every subscription list, as it
\* was, and the task stays as it was.
C16_NoiseChangesNothing ==
    [][\A c \in ConnIds, m \in NoiseFrames :
          LoopRecv(c, m) => /\ subscribers' = subscribers
                            /\ tasks' = tasks]_vars

\* two peers registered, one with a subscription and one without, after
\* three frames of which only one has added a topic and none removed one
C16_Witness ==
    /\ framesRead = 3
    /\ DOMAIN subscribers = PeerIds
    /\ subscribers["p1"].subscriptions = <<<<2>>>>
    /\ subscribers["p2"].subscriptions = << >>
    /\ removals = [c \in ConnIds |-> 0]
    /\ foreign = {}

\* C17: in every state a peer identity is a key of the registry exactly
\* when a receive task spawned for that identity is Running (insertion and
\* spawn are one step, so no task is still starting), and the task of the
\* connection an entry belongs to is never Terminated.
C17_KeyIffLoopActive ==
    /\ \A id \in PeerIds :
          id \in DOMAIN subscribers <=>
              \E c \in ConnIds : tasks[c].peer_id = id /\ tasks[c].state = "Running"
    /\ \A id \in DOMAIN subscribers :
          tasks[subscribers[id].conn].state # "Terminated"

\* subscribe and unsubscribe frames
ControlFrames == Frames \ NoiseFrames

\* C18: whenever the subscription list registered under an identity
\* differs between two successive states in which the identity is a key,
\* the step is one in which the receive task of the entry's own connection
\* processes a subscribe or unsubscribe frame; no step of send and no step
\* of another peer's task changes it.
C18_OnlyOwnLoopChangesList ==
    [][\A id \in DOMAIN subscribers \cap DOMAIN subscribers' :
          subscribers'[id].subscriptions # subscribers[id].subscriptions =>
              LET c == subscribers[id].conn
              IN  /\ tasks[c].peer_id = id
                  /\ \/ \E m \in ControlFrames : LoopRecv(c, m)
                     \/ LoopUnsubRemove(c)]_vars

\* C19: a peer_connected for an identity that is already a key leaves the
\* entry of that identity as it is (list and connection, that is queue and
\* stop sender), leaves its receive task Running and spawns no other task.
C19_DuplicateIdentityRejected ==
    [][\A id \in DOMAIN subscribers :
          peer_connected(id) =>
              /\ id \in DOMAIN subscribers'
              /\ subscribers'[id] = subscribers[id]
              /\ tasks'[subscribers[id].conn].state = "Running"
              /\ tasks' = tasks]_vars

\* a step of the receive task of connection c
LoopStep(c) ==
    \/ \E m \in Frames : LoopRecv(c, m)
    \/ LoopUnsubRemove(c)
    \/ LoopStreamErr(c)
    \/ LoopStreamEnd(c)
    \/ LoopStop(c)

\* C20: a step of a receive task leaves every entry that belongs to
\* another connection in the registry and unchanged, also the entry a later
\* connection has registered under the task's own identity.
C20_LoopTouchesOnlyItsEntry ==
    [][\A c \in ConnIds :
          LoopStep(c) =>
              \A id \in DOMAIN subscribers :
                  subscribers[id].conn # c =>
                      /\ id \in DOMAIN subscribers'
                      /\ subscribers'[id] = subscribers[id]]_vars

====
